---- MODULE Spec2Model ----
(***************************************************************************)
(* Model of codex-rs/core/src/user_notification.rs: the UserNotification   *)
(* event enum with its serde serialization, and the UserNotifier that      *)
(* spawns the configured command with the JSON payload as last argument.   *)
(***************************************************************************)
EXTENDS Naturals, Sequences, FiniteSets, TLC

(***************************************************************************)
(* Bounds of the model.                                                    *)
(***************************************************************************)
\* total number of notify calls issued in one behaviour
MaxCalls == 2

(***************************************************************************)
(* Option<T>: None is the empty sequence, Some(x) the one-element sequence. *)
(***************************************************************************)
None == <<>>

Some(x) == <<x>>

is_none(o) == Len(o) = 0

(***************************************************************************)
(* Identifiers as written in the source, one character per element, so     *)
(* that serde's rename_all = "kebab-case" is computed, not assumed.        *)
(***************************************************************************)
Upper == <<"A","B","C","D","E","F","G","H","I","J","K","L","M",
           "N","O","P","Q","R","S","T","U","V","W","X","Y","Z">>

Lower == <<"a","b","c","d","e","f","g","h","i","j","k","l","m",
           "n","o","p","q","r","s","t","u","v","w","x","y","z">>

is_uppercase(ch) == \E i \in DOMAIN Upper : Upper[i] = ch

to_ascii_lowercase(ch) ==
    IF is_uppercase(ch)
    THEN Lower[CHOOSE i \in DOMAIN Upper : Upper[i] = ch]
    ELSE ch

\* the characters of an identifier joined into one string
RECURSIVE Concat(_)
Concat(cs) == IF cs = <<>> THEN "" ELSE Head(cs) \o Concat(Tail(cs))

\* PascalCase -> snake_case: '_' before every upper-case letter but the
\* first, every letter lower-cased
RECURSIVE SnakeFrom(_, _)
SnakeFrom(cs, i) ==
    IF i > Len(cs) THEN <<>>
    ELSE (IF i > 1 /\ is_uppercase(cs[i]) THEN <<"_">> ELSE <<>>)
         \o <<to_ascii_lowercase(cs[i])>> \o SnakeFrom(cs, i + 1)

\* '_' replaced by '-'
ReplaceUnderscore(cs) == [i \in DOMAIN cs |-> IF cs[i] = "_" THEN "-" ELSE cs[i]]

\* rename_all = "kebab-case" applied to a field (written in snake_case)
KebabField(cs) == Concat(ReplaceUnderscore(cs))

\* rename_all = "snake_case" in place of "kebab-case"
KebabVariantSnake(cs) == Concat(SnakeFrom(cs, 1))

\* rename_all = "kebab-case" applied to a variant (written in PascalCase)
KebabVariant(cs) == Concat(ReplaceUnderscore(SnakeFrom(cs, 1)))

\* variant identifiers of UserNotification and ApprovalType
VariantIdent ==
    [SessionStart      |-> <<"S","e","s","s","i","o","n","S","t","a","r","t">>,
     SessionEnd        |-> <<"S","e","s","s","i","o","n","E","n","d">>,
     UserPromptSubmit  |-> <<"U","s","e","r","P","r","o","m","p","t","S","u","b","m","i","t">>,
     ApprovalRequested |-> <<"A","p","p","r","o","v","a","l","R","e","q","u","e","s","t","e","d">>,
     ApprovalResponse  |-> <<"A","p","p","r","o","v","a","l","R","e","s","p","o","n","s","e">>,
     AgentTurnComplete |-> <<"A","g","e","n","t","T","u","r","n","C","o","m","p","l","e","t","e">>,
     TurnCancelled     |-> <<"T","u","r","n","C","a","n","c","e","l","l","e","d">>,
     Exec              |-> <<"E","x","e","c">>,
     Patch             |-> <<"P","a","t","c","h">>,
     Elicitation       |-> <<"E","l","i","c","i","t","a","t","i","o","n">>]

\* field identifiers of the variants
FieldIdent ==
    [thread_id              |-> <<"t","h","r","e","a","d","_","i","d">>,
     cwd                    |-> <<"c","w","d">>,
     pid                    |-> <<"p","i","d">>,
     turn_id                |-> <<"t","u","r","n","_","i","d">>,
     prompt                 |-> <<"p","r","o","m","p","t">>,
     request_id             |-> <<"r","e","q","u","e","s","t","_","i","d">>,
     approval_type          |-> <<"a","p","p","r","o","v","a","l","_","t","y","p","e">>,
     description            |-> <<"d","e","s","c","r","i","p","t","i","o","n">>,
     approved               |-> <<"a","p","p","r","o","v","e","d">>,
     input_messages         |-> <<"i","n","p","u","t","_","m","e","s","s","a","g","e","s">>,
     last_assistant_message |-> <<"l","a","s","t","_","a","s","s","i","s","t","a","n","t",
                                  "_","m","e","s","s","a","g","e">>]

\* the names serde writes, computed once from the identifiers
FieldKey == [f \in DOMAIN FieldIdent |-> KebabField(FieldIdent[f])]

VariantName == [v \in DOMAIN VariantIdent |-> KebabVariant(VariantIdent[v])]

(***************************************************************************)
(* JSON values: <<"string", s>>, <<"number", n>>, <<"bool", b>>,           *)
(* <<"null">>, <<"array", <<s1, ..., sn>>>> (arrays of strings only).      *)
(* A JSON object is the sequence of its members <<key, value>> in the      *)
(* order they are written.                                                 *)
(***************************************************************************)
JString(s) == <<"string", s>>

JNumber(n) == <<"number", n>>

JBool(b) == <<"bool", b>>

JNull == <<"null">>

JArray(ss) == <<"array", ss>>

\* Option<String> as serde_json writes it when the field is not skipped
JOption(o) == IF is_none(o) THEN JNull ELSE JString(o[1])

\* ApprovalType serializes as its unit variant name, kebab-cased
ApprovalTypeJson(t) == JString(VariantName[t])

\* a field written under its Rust name, rename_all missing on the variant
MemberSnake(field, value) == <<<<Concat(FieldIdent[field]), value>>>>

\* a field of a variant under #[serde(rename_all = "kebab-case")]
Member(field, value) == <<<<FieldKey[field], value>>>>

\* the attribute skip_serializing_if missing: None is written as null
SkipIfNoneAsNull(field, o) == <<<<FieldKey[field], JOption(o)>>>>

\* #[serde(skip_serializing_if = "Option::is_none")]
SkipIfNone(field, o) == IF is_none(o) THEN <<>> ELSE Member(field, JString(o[1]))

\* #[serde(tag = "type")]: the internal tag is the first member
Tag(n) == <<<<"type", JString(VariantName[n.variant])>>>>

\* the schema before elicitation support: the approval variants without
\* request_id
SerializeNoRequestId(n) ==
    Tag(n) \o Member("thread_id", JString(n.thread_id)) \o
    CASE n.variant = "SessionStart" ->
            Member("cwd", JString(n.cwd)) \o Member("pid", JNumber(n.pid))
      [] n.variant = "SessionEnd" -> <<>>
      [] n.variant = "UserPromptSubmit" ->
            Member("turn_id", JString(n.turn_id)) \o Member("cwd", JString(n.cwd)) \o
            Member("prompt", JString(n.prompt))
      [] n.variant = "ApprovalRequested" ->
            SkipIfNone("turn_id", n.turn_id) \o
            Member("approval_type", ApprovalTypeJson(n.approval_type)) \o
            Member("description", JString(n.description))
      [] n.variant = "ApprovalResponse" ->
            SkipIfNone("turn_id", n.turn_id) \o
            Member("approved", JBool(n.approved))
      [] n.variant = "AgentTurnComplete" ->
            Member("turn_id", JString(n.turn_id)) \o Member("cwd", JString(n.cwd)) \o
            Member("input_messages", JArray(n.input_messages)) \o
            Member("last_assistant_message", JOption(n.last_assistant_message))
      [] n.variant = "TurnCancelled" ->
            Member("turn_id", JString(n.turn_id))

\* derive(Serialize) for UserNotification: the members in declaration order
Serialize(n) ==
    Tag(n) \o Member("thread_id", JString(n.thread_id)) \o
    CASE n.variant = "SessionStart" ->
            Member("cwd", JString(n.cwd)) \o Member("pid", JNumber(n.pid))
      [] n.variant = "SessionEnd" -> <<>>
      [] n.variant = "UserPromptSubmit" ->
            Member("turn_id", JString(n.turn_id)) \o Member("cwd", JString(n.cwd)) \o
            Member("prompt", JString(n.prompt))
      [] n.variant = "ApprovalRequested" ->
            SkipIfNone("turn_id", n.turn_id) \o SkipIfNone("request_id", n.request_id) \o
            Member("approval_type", ApprovalTypeJson(n.approval_type)) \o
            Member("description", JString(n.description))
      [] n.variant = "ApprovalResponse" ->
            SkipIfNone("turn_id", n.turn_id) \o SkipIfNone("request_id", n.request_id) \o
            Member("approved", JBool(n.approved))
      [] n.variant = "AgentTurnComplete" ->
            Member("turn_id", JString(n.turn_id)) \o Member("cwd", JString(n.cwd)) \o
            Member("input_messages", JArray(n.input_messages)) \o
            Member("last_assistant_message", JOption(n.last_assistant_message))
      [] n.variant = "TurnCancelled" ->
            Member("turn_id", JString(n.turn_id))

(***************************************************************************)
(* serde_json's compact writer: the object as text.  The strings of the    *)
(* model hold no character that JSON escapes.                              *)
(***************************************************************************)
Digit == <<"0","1","2","3","4","5","6","7","8","9">>

RECURSIVE Decimal(_)
Decimal(n) == IF n < 10 THEN Digit[n + 1] ELSE Decimal(n \div 10) \o Digit[(n % 10) + 1]

Quote(s) == "\"" \o s \o "\""

RECURSIVE WriteStrings(_, _)
WriteStrings(ss, i) ==
    IF i > Len(ss) THEN ""
    ELSE (IF i > 1 THEN "," ELSE "") \o Quote(ss[i]) \o WriteStrings(ss, i + 1)

WriteValue(v) ==
    CASE v[1] = "string" -> Quote(v[2])
      [] v[1] = "number" -> Decimal(v[2])
      [] v[1] = "bool"   -> IF v[2] THEN "true" ELSE "false"
      [] v[1] = "null"   -> "null"
      [] v[1] = "array"  -> "[" \o WriteStrings(v[2], 1) \o "]"

RECURSIVE WriteMembers(_, _)
WriteMembers(obj, i) ==
    IF i > Len(obj) THEN ""
    ELSE (IF i > 1 THEN "," ELSE "") \o Quote(obj[i][1]) \o ":" \o WriteValue(obj[i][2])
         \o WriteMembers(obj, i + 1)

WriteObject(obj) == "{" \o WriteMembers(obj, 1) \o "}"

\* serde_json::to_string(&notification): Result<String, Error>; the derived
\* impl of these variants has no failing path
to_string(n) == [ok |-> TRUE, json |-> WriteObject(Serialize(n))]

\* reading a serialized object
HasKey(obj, k) == \E i \in DOMAIN obj : obj[i][1] = k

Get(obj, k) == obj[CHOOSE i \in DOMAIN obj : obj[i][1] = k][2]

(***************************************************************************)
(* The values the model draws events from.                                 *)
(***************************************************************************)
ThreadIds == {"t1", "t2"}

TurnIds == {"2", "5"}

RequestIds == {"mcp-req-123"}

Cwds == {"/proj"}

Pids == {7, 100, 12345}

Prompts == {"Fix the bug in main.rs"}

Descriptions == {"run tests"}

Messages == {<<>>, <<"m1">>, <<"m1", "m2">>}

AssistantMessages == {"Rename complete"}

ApprovalType == {"Exec", "Patch", "Elicitation"}

Option(S) == {None} \cup {Some(x) : x \in S}

\* the values of enum UserNotification, variant by variant
SessionStart ==
    [variant : {"SessionStart"}, thread_id : ThreadIds, cwd : Cwds, pid : Pids]

SessionEnd ==
    [variant : {"SessionEnd"}, thread_id : ThreadIds]

UserPromptSubmit ==
    [variant : {"UserPromptSubmit"}, thread_id : ThreadIds, turn_id : TurnIds,
     cwd : Cwds, prompt : Prompts]

ApprovalRequested ==
    [variant : {"ApprovalRequested"}, thread_id : ThreadIds, turn_id : Option(TurnIds),
     request_id : Option(RequestIds), approval_type : ApprovalType,
     description : Descriptions]

ApprovalResponse ==
    [variant : {"ApprovalResponse"}, thread_id : ThreadIds, turn_id : Option(TurnIds),
     request_id : Option(RequestIds), approved : BOOLEAN]

AgentTurnComplete ==
    [variant : {"AgentTurnComplete"}, thread_id : ThreadIds, turn_id : TurnIds,
     cwd : Cwds, input_messages : Messages,
     last_assistant_message : Option(AssistantMessages)]

TurnCancelled ==
    [variant : {"TurnCancelled"}, thread_id : ThreadIds, turn_id : TurnIds]

UserNotification ==
    SessionStart \cup SessionEnd \cup UserPromptSubmit \cup ApprovalRequested \cup
    ApprovalResponse \cup AgentTurnComplete \cup TurnCancelled

\* the events the dispatcher is driven with when several calls are made
DispatchEvents ==
    {n \in UserNotification :
        /\ n.thread_id = "t1"
        /\ n.variant \in {"SessionStart", "ApprovalRequested", "ApprovalResponse"}
        /\ n.variant = "SessionStart" => n.pid = 100
        /\ n.variant = "ApprovalRequested" =>
              /\ n.approval_type = (IF is_none(n.turn_id) THEN "Elicitation" ELSE "Exec")
              /\ n.turn_id \in {None, Some("5")}
              /\ is_none(n.turn_id) # is_none(n.request_id)
        /\ n.variant = "ApprovalResponse" =>
              /\ n.approved
              /\ n.turn_id \in {None, Some("5")}
              /\ is_none(n.turn_id) = is_none(n.request_id)}

\* the notify command given to UserNotifier::new
NotifyCommands == {None, Some(<<>>), Some(<<"notify-send", "-u", "low">>)}

\* the threads that call notify on the one notifier
Callers == {"c1", "c2"}

\* a caller that is not inside notify holds no notification
NoNotification == [variant |-> "none"]

\* a caller that has not built a command holds none
NoCommand == <<>>

(***************************************************************************)
(* State.                                                                  *)
(*   notify_command  UserNotifier.notify_command                           *)
(*   pc              where each caller is inside notify                    *)
(*   notification    the notification each caller passed                   *)
(*   command         the std::process::Command each caller has built       *)
(*   calls           the notify calls in the order they were issued        *)
(*   launches        the spawn attempts in the order they were made, each  *)
(*                   with the call that made it and the child's status     *)
(***************************************************************************)
VARIABLES notify_command, pc, notification, command, calls, launches

vars == <<notify_command, pc, notification, command, calls, launches>>

\* UserNotifier::new stores the command unchanged
new(notify) == notify

\* the condition of notify's if-let chain
ShouldInvokeSomeOnly(cmd) == ~is_none(cmd)

ShouldInvoke(cmd) == ~is_none(cmd) /\ Len(cmd[1]) # 0

\* Command::new(&notify_command[0]), args(&notify_command[1..]), arg(json)
BuildCommandJsonFirst(cmd, json) ==
    <<cmd[1]>> \o <<json>> \o (IF Len(cmd) > 1 THEN SubSeq(cmd, 2, Len(cmd)) ELSE <<>>)

BuildCommand(cmd, json) ==
    <<cmd[1]>> \o (IF Len(cmd) > 1 THEN SubSeq(cmd, 2, Len(cmd)) ELSE <<>>) \o <<json>>

\* where the caller is after command.spawn() returned Ok (ok) or Err
AfterSpawnUnwrap(ok) == IF ok THEN "idle" ELSE "panicked"

AfterSpawnWait(ok) == IF ok THEN "wait" ELSE "idle"

AfterSpawn(ok) == "idle"

\* the index in calls of the call the caller is in (its latest call)
CurCall(c) ==
    CHOOSE i \in DOMAIN calls :
        /\ calls[i].caller = c
        /\ \A j \in DOMAIN calls : calls[j].caller = c => j <= i

\* the spawn attempt is recorded when it is made
RecordLaunchDeferred(l) == <<l>> \o launches

RecordLaunch(l) == Append(launches, l)

\* the state after UserNotifier::new(notify), no call made yet
InitWith(notify) ==
    /\ notify_command = new(notify)
    /\ pc = [c \in Callers |-> "idle"]
    /\ notification = [c \in Callers |-> NoNotification]
    /\ command = [c \in Callers |-> NoCommand]
    /\ calls = <<>>
    /\ launches = <<>>

Init == \E notify \in NotifyCommands : InitWith(notify)

\* notify(&self, notification): the call and the test of the command
Notify(c, n) ==
    /\ pc[c] = "idle"
    /\ Len(calls) < MaxCalls
    /\ calls' = Append(calls, [caller |-> c, event |-> n])
    /\ IF ShouldInvoke(notify_command)
       THEN /\ pc' = [pc EXCEPT ![c] = "invoke_notify"]
            /\ notification' = [notification EXCEPT ![c] = n]
       ELSE UNCHANGED <<pc, notification>>
    /\ UNCHANGED <<notify_command, command, launches>>

\* invoke_notify with the built command kept in one place shared by the
\* callers instead of a local
InvokeNotifyShared(c) ==
    /\ pc[c] = "invoke_notify"
    /\ pc' = [pc EXCEPT ![c] = "spawn"]
    /\ command' = [d \in Callers |->
                     IF d = c \/ pc[d] = "spawn"
                     THEN BuildCommand(notify_command[1], to_string(notification[c]).json)
                     ELSE command[d]]
    /\ UNCHANGED <<notify_command, notification, calls, launches>>

\* invoke_notify up to command.arg(json)
InvokeNotify(c) ==
    /\ pc[c] = "invoke_notify"
    /\ LET r == to_string(notification[c])
       IN  IF ~r.ok
           THEN /\ pc' = [pc EXCEPT ![c] = "idle"]
                /\ notification' = [notification EXCEPT ![c] = NoNotification]
                /\ UNCHANGED command
           ELSE IF Len(notify_command[1]) = 0
           THEN \* notify_command[0] is out of bounds
                /\ pc' = [pc EXCEPT ![c] = "panicked"]
                /\ UNCHANGED <<notification, command>>
           ELSE /\ pc' = [pc EXCEPT ![c] = "spawn"]
                /\ command' = [command EXCEPT ![c] = BuildCommand(notify_command[1], r.json)]
                /\ UNCHANGED notification
    /\ UNCHANGED <<notify_command, calls, launches>>

\* command.spawn() and the return of notify; ok is whether the OS started
\* the process
Spawn(c, ok) ==
    /\ pc[c] = "spawn"
    /\ launches' = RecordLaunch([call   |-> CurCall(c),
                                 argv   |-> command[c],
                                 status |-> IF ok THEN "running" ELSE "failed"])
    /\ pc' = [pc EXCEPT ![c] = AfterSpawn(ok)]
    /\ notification' = [notification EXCEPT ![c] = NoNotification]
    /\ command' = [command EXCEPT ![c] = NoCommand]
    /\ UNCHANGED <<notify_command, calls>>

\* a launched program finishes, at a time of its own choosing
ChildExit(i) ==
    /\ i \in DOMAIN launches
    /\ launches[i].status = "running"
    /\ launches' = [launches EXCEPT ![i].status = "exited"]
    /\ UNCHANGED <<notify_command, pc, notification, command, calls>>

Next ==
    \/ \E c \in Callers : \E n \in DispatchEvents : Notify(c, n)
    \/ \E c \in Callers : InvokeNotify(c)
    \/ \E c \in Callers : \E ok \in BOOLEAN : Spawn(c, ok)
    \/ \E i \in 1..MaxCalls : ChildExit(i)

Spec == Init /\ [][Next]_vars

\* a caller inside notify keeps running: its thread is scheduled.  Nothing
\* makes a launched program finish.
Fairness ==
    \A c \in Callers :
        WF_vars(InvokeNotify(c)) /\ WF_vars(\E ok \in BOOLEAN : Spawn(c, ok))

LiveSpec == Init /\ [][Next]_vars /\ Fairness

(***************************************************************************)
(* One notify call on a notifier built with ["echo"], the notification     *)
(* drawn from all of UserNotification: the serializer applied to every     *)
(* value of the enum.                                                      *)
(***************************************************************************)
SerInit == InitWith(Some(<<"echo">>))

SerNext ==
    \/ \E n \in UserNotification : calls = <<>> /\ Notify("c1", n)
    \/ InvokeNotify("c1")
    \/ \E ok \in BOOLEAN : Spawn("c1", ok)
    \/ ChildExit(1)

SerSpec == SerInit /\ [][SerNext]_vars

(***************************************************************************)
(* Reading the state.                                                      *)
(***************************************************************************)
\* the notifier has a command to run
HasTarget == notify_command # None /\ notify_command # Some(<<>>)

\* call i has returned to its caller
Returned(i) == ~(pc[calls[i].caller] # "idle" /\ CurCall(calls[i].caller) = i)

\* the notification passed by the call that made launch l, and its
\* canonical serialization as an object and as text
EventOf(l) == calls[l.call].event

PayloadOf(l) == Serialize(EventOf(l))

Canonical(n) == WriteObject(Serialize(n))

\* the last argument of launch l is the canonical serialization of its event
CarriesPayload(l) == l.argv[Len(l.argv)] = WriteObject(PayloadOf(l))

LaunchesOfCall(i) == {k \in DOMAIN launches : launches[k].call = i}

IsApproval(n) == n.variant \in {"ApprovalRequested", "ApprovalResponse"}

AllIdle == \A c \in Callers : pc[c] = "idle"

(***************************************************************************)
(* C1.  A notifier built by new(None) or new(Some(empty)) never attempts a *)
(* launch, whatever notify calls are made: every call is a no-op that      *)
(* returns at once.                                                        *)
(***************************************************************************)
C1_NoTargetNoLaunch ==
    (notify_command = None \/ notify_command = Some(<<>>)) =>
        /\ launches = <<>>
        /\ AllIdle

C1_Witness ==
    /\ notify_command = Some(<<>>)
    /\ Len(calls) >= 2
    /\ launches = <<>>

(***************************************************************************)
(* C2.  With a non-empty target [c0, ..., cn], every notify call that has  *)
(* returned made exactly one launch, whose argument vector is c0, ..., cn  *)
(* followed by exactly one argument, the canonical serialization of the    *)
(* call's event; after k calls there are exactly k launches.               *)
(***************************************************************************)
C2_OneLaunchPerCall ==
    HasTarget =>
        /\ \A i \in DOMAIN calls :
              Returned(i) =>
                 /\ Cardinality(LaunchesOfCall(i)) = 1
                 /\ \A k \in LaunchesOfCall(i) :
                       launches[k].argv = notify_command[1] \o <<Canonical(calls[i].event)>>
        /\ Len(launches) = Cardinality({i \in DOMAIN calls : Returned(i)})

C2_Witness ==
    /\ notify_command = Some(<<"notify-send", "-u", "low">>)
    /\ Len(calls) >= 2
    /\ \A i \in DOMAIN calls : Returned(i)
    /\ Len(launches) = Len(calls)
    /\ Len(launches[1].argv) = 4

(***************************************************************************)
(* C3.  As claimed: an optional field that is absent is omitted, and no    *)
(* serialized event holds a null.                                          *)
(***************************************************************************)
C3_Original_NoNullEver ==
    \A k \in DOMAIN launches :
        /\ CarriesPayload(launches[k])
        /\ \A m \in DOMAIN PayloadOf(launches[k]) : PayloadOf(launches[k])[m][2] # JNull

(***************************************************************************)
(* C3, amended.  turn_id and request_id of ApprovalRequested and           *)
(* ApprovalResponse are omitted from the object when absent, and those     *)
(* objects hold no null; last_assistant_message of AgentTurnComplete is    *)
(* written as "last-assistant-message":null when absent.                   *)
(***************************************************************************)
C3_OptionalFields ==
    \A k \in DOMAIN launches :
        LET n   == EventOf(launches[k])
            obj == PayloadOf(launches[k])
        IN  /\ CarriesPayload(launches[k])
            /\ IsApproval(n) =>
                  /\ is_none(n.turn_id) => ~HasKey(obj, "turn-id")
                  /\ is_none(n.request_id) => ~HasKey(obj, "request-id")
                  /\ \A m \in DOMAIN obj : obj[m][2] # JNull
            /\ n.variant = "AgentTurnComplete" =>
                  /\ HasKey(obj, "last-assistant-message")
                  /\ is_none(n.last_assistant_message) =>
                        Get(obj, "last-assistant-message") = JNull
                  /\ ~is_none(n.last_assistant_message) =>
                        Get(obj, "last-assistant-message") =
                            JString(n.last_assistant_message[1])

C3_Witness ==
    \E k \in DOMAIN launches :
        /\ EventOf(launches[k]).variant = "AgentTurnComplete"
        /\ is_none(EventOf(launches[k]).last_assistant_message)
        /\ launches[k].argv[Len(launches[k].argv)] =
             "{\"type\":\"agent-turn-complete\",\"thread-id\":\"t1\",\"turn-id\":\"5\"," \o
             "\"cwd\":\"/proj\",\"input-messages\":[\"m1\"],\"last-assistant-message\":null}"

C5_CorrelationKey ==
    \A k \in DOMAIN launches :
        LET n   == EventOf(launches[k])
            obj == PayloadOf(launches[k])
        IN  IsApproval(n) =>
              /\ CarriesPayload(launches[k])
              /\ (~is_none(n.turn_id) /\ is_none(n.request_id)) =>
                    /\ HasKey(obj, "turn-id")
                    /\ Get(obj, "turn-id") = JString(n.turn_id[1])
                    /\ ~HasKey(obj, "request-id")
              /\ (~is_none(n.request_id) /\ is_none(n.turn_id)) =>
                    /\ HasKey(obj, "request-id")
                    /\ Get(obj, "request-id") = JString(n.request_id[1])
                    /\ ~HasKey(obj, "turn-id")

C5_Witness ==
    \E k \in DOMAIN launches :
        /\ EventOf(launches[k]) =
              [variant |-> "ApprovalRequested", thread_id |-> "t1", turn_id |-> Some("5"),
               request_id |-> None, approval_type |-> "Exec", description |-> "run tests"]
        /\ launches[k].argv[Len(launches[k].argv)] =
             "{\"type\":\"approval-requested\",\"thread-id\":\"t1\",\"turn-id\":\"5\"," \o
             "\"approval-type\":\"exec\",\"description\":\"run tests\"}"

(***************************************************************************)
(* C6.  A failed launch is contained: no caller is left with an error (a   *)
(* call that has finished has returned normally), a call that has returned *)
(* made its launch attempt whether or not earlier attempts failed, and     *)
(* every attempt made after a failed one is the ordinary one, the target   *)
(* followed by the payload of its own call.                                *)
(***************************************************************************)
C6_LaunchFailureContained ==
    /\ \A c \in Callers : pc[c] \in {"idle", "invoke_notify", "spawn"}
    /\ \A j \in DOMAIN launches :
          launches[j].status = "failed" =>
             /\ Returned(launches[j].call)
             /\ \A i \in DOMAIN calls :
                   (i > launches[j].call /\ Returned(i)) => LaunchesOfCall(i) # {}
             /\ \A k \in DOMAIN launches :
                   k > j => /\ launches[k].argv[1] = notify_command[1][1]
                            /\ CarriesPayload(launches[k])

C6_Witness ==
    /\ Len(launches) >= 2
    /\ launches[1].status = "failed"
    /\ launches[2].status = "running"
    /\ launches[1].call = 1
    /\ launches[2].call = 2
    /\ AllIdle

\* the kebab-case names of the fields each variant declares
DeclaredKeys(n) ==
    CASE n.variant = "SessionStart" -> {"thread-id", "cwd", "pid"}
      [] n.variant = "SessionEnd" -> {"thread-id"}
      [] n.variant = "UserPromptSubmit" -> {"thread-id", "turn-id", "cwd", "prompt"}
      [] n.variant = "ApprovalRequested" ->
            {"thread-id", "turn-id", "request-id", "approval-type", "description"}
      [] n.variant = "ApprovalResponse" ->
            {"thread-id", "turn-id", "request-id", "approved"}
      [] n.variant = "AgentTurnComplete" ->
            {"thread-id", "turn-id", "cwd", "input-messages", "last-assistant-message"}
      [] n.variant = "TurnCancelled" -> {"thread-id", "turn-id"}

\* the kebab-case name of each variant, as the payload examples write it
TypeName ==
    [SessionStart      |-> "session-start",
     SessionEnd        |-> "session-end",
     UserPromptSubmit  |-> "user-prompt-submit",
     ApprovalRequested |-> "approval-requested",
     ApprovalResponse  |-> "approval-response",
     AgentTurnComplete |-> "agent-turn-complete",
     TurnCancelled     |-> "turn-cancelled"]

\* the keys of the optional fields that are skipped for this value
OptionalKeys(n) ==
    IF IsApproval(n)
    THEN (IF is_none(n.turn_id) THEN {"turn-id"} ELSE {}) \cup
         (IF is_none(n.request_id) THEN {"request-id"} ELSE {})
    ELSE {}

(***************************************************************************)
(* C7.  As claimed: the type member is the variant's kebab-case name and   *)
(* every declared field appears under its kebab-case name.                 *)
(***************************************************************************)
C7_Original_EveryFieldAppears ==
    \A k \in DOMAIN launches :
        /\ Get(PayloadOf(launches[k]), "type") = JString(TypeName[EventOf(launches[k]).variant])
        /\ \A key \in DeclaredKeys(EventOf(launches[k])) : HasKey(PayloadOf(launches[k]), key)

(***************************************************************************)
(* C7, amended.  For each of the seven variants the object's first member  *)
(* is type with the variant's kebab-case name, every declared field that   *)
(* is not optional appears under its kebab-case name with the value it was *)
(* constructed with, an optional field that is set appears with its value, *)
(* the object has no other key, and the keys follow declaration order.     *)
(* turn_id and request_id of the approval variants do not appear when      *)
(* absent.                                                                 *)
(***************************************************************************)
C7_FieldsAppear ==
    \A k \in DOMAIN launches :
        LET n   == EventOf(launches[k])
            obj == PayloadOf(launches[k])
            S(key, v) == HasKey(obj, key) /\ Get(obj, key) = JString(v)
            O(key, o) == ~is_none(o) => S(key, o[1])
        IN  /\ CarriesPayload(launches[k])
            /\ obj[1] = <<"type", JString(TypeName[n.variant])>>
            /\ {obj[m][1] : m \in DOMAIN obj} =
                  {"type"} \cup (DeclaredKeys(n) \ OptionalKeys(n))
            /\ Cardinality({obj[m][1] : m \in DOMAIN obj}) = Len(obj)
            /\ S("thread-id", n.thread_id) /\ obj[2][1] = "thread-id"
            /\ n.variant = "SessionStart" =>
                  S("cwd", n.cwd) /\ Get(obj, "pid") = JNumber(n.pid)
            /\ n.variant = "UserPromptSubmit" =>
                  S("turn-id", n.turn_id) /\ S("cwd", n.cwd) /\ S("prompt", n.prompt)
            /\ n.variant = "ApprovalRequested" =>
                  /\ O("turn-id", n.turn_id) /\ O("request-id", n.request_id)
                  /\ S("description", n.description)
                  /\ Get(obj, "approval-type") =
                        JString([Exec |-> "exec", Patch |-> "patch",
                                 Elicitation |-> "elicitation"][n.approval_type])
            /\ n.variant = "ApprovalResponse" =>
                  /\ O("turn-id", n.turn_id) /\ O("request-id", n.request_id)
                  /\ Get(obj, "approved") = JBool(n.approved)
            /\ n.variant = "AgentTurnComplete" =>
                  /\ S("turn-id", n.turn_id) /\ S("cwd", n.cwd)
                  /\ Get(obj, "input-messages") = JArray(n.input_messages)
                  /\ O("last-assistant-message", n.last_assistant_message)
            /\ n.variant = "TurnCancelled" => S("turn-id", n.turn_id)
            /\ n = [variant |-> "SessionStart", thread_id |-> "t1", cwd |-> "/proj",
                    pid |-> 100] =>
                  launches[k].argv[2] =
                     "{\"type\":\"session-start\",\"thread-id\":\"t1\",\"cwd\":\"/proj\",\"pid\":100}"
            /\ n = [variant |-> "TurnCancelled", thread_id |-> "t1", turn_id |-> "2"] =>
                  launches[k].argv[2] =
                     "{\"type\":\"turn-cancelled\",\"thread-id\":\"t1\",\"turn-id\":\"2\"}"

C7_Witness ==
    \E k \in DOMAIN launches :
        /\ EventOf(launches[k]) =
              [variant |-> "AgentTurnComplete", thread_id |-> "t2", turn_id |-> "2",
               cwd |-> "/proj", input_messages |-> <<"m1", "m2">>,
               last_assistant_message |-> Some("Rename complete")]
        /\ launches[k].argv[2] =
             "{\"type\":\"agent-turn-complete\",\"thread-id\":\"t2\",\"turn-id\":\"2\"," \o
             "\"cwd\":\"/proj\",\"input-messages\":[\"m1\",\"m2\"]," \o
             "\"last-assistant-message\":\"Rename complete\"}"

(***************************************************************************)
(* C8.  Every notify call returns to its caller, whatever the launched     *)
(* programs do: a caller inside notify is eventually outside it, though no *)
(* launched program is ever required to finish.                            *)
(***************************************************************************)
C8_NotifyReturns == \A c \in Callers : (pc[c] # "idle") ~> (pc[c] = "idle")

C8_Witness ==
    /\ Len(launches) >= 2
    /\ launches[1].status = "running"
    /\ launches[2].status = "running"
    /\ launches[1].call = 1
    /\ launches[2].call = 2
    /\ calls[1].caller = calls[2].caller
    /\ AllIdle

(***************************************************************************)
(* C9.  With callers inside notify at the same time, under every           *)
(* interleaving: the configured target never changes; a step that makes a  *)
(* launch makes exactly one, by a caller that was at its spawn, with the   *)
(* target followed by the serialization of that caller's own event, and    *)
(* changes no earlier launch's arguments; and no call that has returned    *)
(* lacks its launch or has two.                                            *)
(***************************************************************************)
C9_StepSafe ==
    /\ notify_command' = notify_command
    /\ Len(launches') >= Len(launches)
    /\ \A k \in DOMAIN launches :
          launches'[k].argv = launches[k].argv /\ launches'[k].call = launches[k].call
    /\ Len(launches') > Len(launches) =>
          /\ Len(launches') = Len(launches) + 1
          /\ LET l == launches'[Len(launches')]
                 c == calls[l.call].caller
             IN  /\ pc[c] = "spawn" /\ pc'[c] = "idle"
                 /\ CurCall(c) = l.call
                 /\ l.argv = notify_command[1] \o <<Canonical(calls[l.call].event)>>
                 /\ \A d \in Callers \ {c} : pc'[d] = pc[d]

\* C9: every step is safe in the sense above, and in every state each call
\* that has returned has exactly one launch
C9_ConcurrentNotify ==
    /\ [][C9_StepSafe]_vars
    /\ [](HasTarget => \A i \in DOMAIN calls :
                          Returned(i) => Cardinality(LaunchesOfCall(i)) = 1)

C9_Witness ==
    /\ Len(launches) = 2
    /\ calls[1].caller # calls[2].caller
    /\ calls[1].event # calls[2].event
    /\ launches[1].call = 2
    /\ launches[2].call = 1
    /\ AllIdle

(***************************************************************************)
(* C10.  For the calls of one caller, issued one after another: a call     *)
(* that has returned has already made its launch attempt (nothing is       *)
(* queued for later), and the caller's launch attempts are in the order of *)
(* its calls.  When the launched programs finish is not constrained.       *)
(***************************************************************************)
C10_LaunchOrder ==
    HasTarget =>
        \A c \in Callers :
            /\ \A i \in DOMAIN calls :
                  (calls[i].caller = c /\ Returned(i)) => LaunchesOfCall(i) # {}
            /\ \A j, k \in DOMAIN launches :
                  (/\ calls[launches[j].call].caller = c
                   /\ calls[launches[k].call].caller = c
                   /\ launches[j].call < launches[k].call) => j < k

C10_Witness ==
    /\ Len(launches) >= 2
    /\ calls[1].caller = calls[2].caller
    /\ launches[1].call = 1
    /\ launches[2].call = 2
    /\ launches[1].status = "running"
    /\ launches[2].status = "exited"

====
